---- MODULE Spec2Model ----
(***************************************************************************)
(* Model of the microservice process supervisor of the control panel:      *)
(* MainWindow of src/claude_v4.py (registry running_services, start/stop   *)
(* of services, the shutdown sweep cleanup_all_processes, the signal and   *)
(* exit hooks of main) and the older MainWindow of src/claude_v3.py.       *)
(*                                                                         *)
(* Everything runs on the one Python main thread.  A blocking call         *)
(* (Popen.wait) is a point where the environment moves: a child process    *)
(* exits, or an OS signal reaches the host process.  A Python signal       *)
(* handler runs on the main thread on top of whatever it interrupted, and  *)
(* ends in sys.exit, so the interrupted routine is never resumed.          *)
(* The model is of a POSIX host (os.killpg and os.setsid exist).           *)
(***************************************************************************)
EXTENDS Naturals, Sequences, FiniteSets

\* ------------------------------------------------------------------ bounds
\* Service names a configuration may mention.
Names == {"A", "B"}
\* Longest auto_start list a configuration carries.
MaxAuto == 2
\* Child processes spawned in one session.
MaxSpawns == 2
\* Signals counted per process and kind; the count saturates here.
MaxSignals == 2

VARIABLES
  variant,               \* "v4" (claude_v4.py) or "v3" (claude_v3.py)
  config_data,           \* [microservices, auto_start]: the resolved lists;
                         \* auto_start, which only construction reads, is
                         \* kept until construction is over
  running_services,      \* the registry: <<[name, pid]>> in insertion order
  is_closing,            \* MainWindow.is_closing (v4)
  status,                \* services_list: name -> "absent" | "red" | "green"
  log,                   \* status_text lines of the current operation, and
                         \* the "Error stopping" lines the sweep prints
  procs,                 \* child processes by pid (OS side and Popen handle)
  host,                  \* life of the hosting process
  pc,                    \* the routine the main thread is inside
  main_window_instance,  \* the global of claude_v4.py main()
  splash                 \* the SplashScreen and its ConfigLoader (v4):
                         \* [is_closing, should_stop, at, waiting, finished]

vars == <<variant, config_data, running_services, is_closing, status, log,
          procs, host, pc, main_window_instance, splash>>

\* ----------------------------------------------------------------- helpers
NoWindow == "None"

\* Prefixes of a fixed listing stand for every duplicate-free descriptor list.
ServiceLists == {<<"A">>, <<"A", "B">>}

RECURSIVE SeqsUpTo(_, _)
SeqsUpTo(S, n) ==
  IF n = 0 THEN {<<>>}
  ELSE LET shorter == SeqsUpTo(S, n - 1)
       IN  shorter \cup {Append(s, x) : s \in {t \in shorter : Len(t) = n - 1}, x \in S}

Range(s) == {s[i] : i \in 1..Len(s)}

Bump(c) == IF c < MaxSignals THEN c + 1 ELSE c

Msg(kind, name) == [kind |-> kind, name |-> name]

\* ---------------------------------------------------------------- registry
\* running_services is a Python dict: keys unique, iteration in insertion order.
Has(reg, n) == \E i \in 1..Len(reg) : reg[i].name = n

Get(reg, n) == (CHOOSE e \in Range(reg) : e.name = n).pid

Keys(reg) == {reg[i].name : i \in 1..Len(reg)}

Insert(reg, n, p) ==
  IF Has(reg, n)
  THEN [i \in 1..Len(reg) |-> IF reg[i].name = n THEN [name |-> n, pid |-> p] ELSE reg[i]]
  ELSE Append(reg, [name |-> n, pid |-> p])

Remove(reg, n) == SelectSeq(reg, LAMBDA e : e.name # n)

\* Bookkeeping, not program state.  term and kill count the signals sent to
\* a process while the supervisor holds its handle; by is the trigger on
\* whose behalf it was first signalled ("user": a single stop;
\* "stop_all_services"; "closeEvent"; "atexit"; "signal_handler"); scope is
\* whom the last signal was addressed to ("group": the process group of the
\* child; "child": the child alone; "none": nothing sent yet).  The
\* bookkeeping of a process ends with its registry entry; whether it is alive
\* stays.
Mark(ps, p, who) ==
  IF ps[p].by = "" THEN [ps EXCEPT ![p].by = who] ELSE ps

Forget(ps, P) ==
  [p \in 1..Len(ps) |->
     IF p \in P THEN [ps[p] EXCEPT !.term = 0, !.kill = 0, !.by = "", !.scope = "none"]
     ELSE ps[p]]

Pids(reg) == {reg[i].pid : i \in 1..Len(reg)}

\* del self.running_services[name]
Drop(w, n) ==
  [w EXCEPT !.reg = Remove(@, n),
            !.procs = Forget(@, Pids(SelectSeq(w.reg, LAMBDA e : e.name = n)))]

\* ------------------------------------------------------------------ frames
\* op: the routine; at: the point reached in it; name, pid: its service_name
\* and process locals; todo: the rest of the list a loop iterates; caller: the
\* routine to return to.
Frame(op, at, name, pid, todo, caller) ==
  [op |-> op, at |-> at, name |-> name, pid |-> pid, todo |-> todo, caller |-> caller]

NoPid == 0

Idle == Frame("idle", "idle", "", NoPid, <<>>, "")

HostUp == host \in {"running", "atexit"}

\* The host process has ended: "exited" (ran to the end of its exit hooks),
\* "killed" (default action of a signal), "aborted" (an exit hook cut short).
\* Its memory is gone; the child processes are what is left.
HostDown == host \in {"exited", "killed", "aborted"}

Gone(how) ==
  /\ host' = how
  /\ pc' = Idle
  /\ running_services' = <<>>
  /\ is_closing' = FALSE
  /\ status' = [n \in Names |-> "absent"]
  /\ log' = <<>>
  /\ main_window_instance' = NoWindow
  /\ procs' = Forget(procs, 1..Len(procs))
  /\ UNCHANGED <<splash, variant, config_data>>

ExitFrame == Frame("exit", "entry", "", NoPid, <<>>, "")

\* update_service_status: the first list item carrying the name changes its mark.
UpdateServiceStatus(st, n, is_running) ==
  IF st[n] = "absent" THEN st
  ELSE [st EXCEPT ![n] = IF is_running THEN "green" ELSE "red"]

\* subprocess.Popen([sys.executable, name], preexec_fn=os.setsid) in v4,
\* subprocess.Popen([sys.executable, name]) in v3.
NewProc(v, n) ==
  [name |-> n, alive |-> TRUE, term |-> 0, kill |-> 0, setsid |-> (v = "v4"),
   by |-> "", scope |-> "none"]

\* os.killpg(os.getpgid(process.pid), sig): the signal goes to the process
\* group of the child, also when the child is a zombie not yet waited for.
Killpg(ps, p, sig) ==
  IF sig = "SIGTERM" THEN [ps EXCEPT ![p].term = Bump(@), ![p].scope = "group"]
  ELSE [ps EXCEPT ![p].kill = Bump(@), ![p].scope = "group"]

\* Popen.terminate() / Popen.kill(): send_signal polls first and signals the
\* child alone, and only when it has not exited.
PopenSendSignal(ps, p, sig) ==
  IF ~ps[p].alive THEN ps
  ELSE IF sig = "SIGTERM" THEN [ps EXCEPT ![p].term = Bump(@), ![p].scope = "child"]
  ELSE [ps EXCEPT ![p].kill = Bump(@), ![p].scope = "child"]

\* Popen.wait returns once the child has exited; Popen.poll() is not None.
WaitReturns(ps, p) == ~ps[p].alive

StartService_NoCheck(v, w, n, popenOk) ==
  IF popenOk
  THEN [reg    |-> Insert(w.reg, n, Len(w.procs) + 1),
        procs  |-> Append(w.procs, NewProc(v, n)),
        status |-> UpdateServiceStatus(w.status, n, TRUE),
        log    |-> Append(w.log, Msg("started", n))]
  ELSE [w EXCEPT !.log = Append(@, Msg("start_failed", n))]

StartService_FailRegisters(v, w, n, popenOk) ==
  IF Has(w.reg, n)
  THEN [w EXCEPT !.log = Append(@, Msg("already_running", n))]
  ELSE IF popenOk
       THEN [reg    |-> Insert(w.reg, n, Len(w.procs) + 1),
             procs  |-> Append(w.procs, NewProc(v, n)),
             status |-> UpdateServiceStatus(w.status, n, TRUE),
             log    |-> Append(w.log, Msg("started", n))]
       ELSE [reg    |-> Insert(w.reg, n, Len(w.procs) + 1),
             procs  |-> Append(w.procs, NewProc(v, n)),
             status |-> w.status,
             log    |-> Append(w.log, Msg("start_failed", n))]

StartService_NoInsert(v, w, n, popenOk) ==
  IF Has(w.reg, n)
  THEN [w EXCEPT !.log = Append(@, Msg("already_running", n))]
  ELSE IF popenOk
       THEN [reg    |-> w.reg,
             procs  |-> Append(w.procs, NewProc(v, n)),
             status |-> UpdateServiceStatus(w.status, n, TRUE),
             log    |-> Append(w.log, Msg("started", n))]
       ELSE [w EXCEPT !.log = Append(@, Msg("start_failed", n))]

\* start_service as a function of the window's state w = [reg, procs, status, log]
\* and of whether Popen succeeds.
StartService(v, w, n, popenOk) ==
  IF Has(w.reg, n)
  THEN [w EXCEPT !.log = Append(@, Msg("already_running", n))]
  ELSE IF popenOk
       THEN [reg    |-> Insert(w.reg, n, Len(w.procs) + 1),
             procs  |-> Append(w.procs, NewProc(v, n)),
             status |-> UpdateServiceStatus(w.status, n, TRUE),
             log    |-> Append(w.log, Msg("started", n))]
       ELSE [w EXCEPT !.log = Append(@, Msg("start_failed", n))]

RECURSIVE StartEach_StopAtFailure(_, _, _, _)
StartEach_StopAtFailure(v, w, list, oks) ==
  IF list = <<>> THEN w
  ELSE IF ~Has(w.reg, Head(list)) /\ ~Head(oks)
       THEN StartService(v, w, Head(list), Head(oks))
       ELSE StartEach_StopAtFailure(v, StartService(v, w, Head(list), Head(oks)),
                                    Tail(list), Tail(oks))

\* for service in list: self.start_service(service)
RECURSIVE StartEach(_, _, _, _)
StartEach(v, w, list, oks) ==
  IF list = <<>> THEN w
  ELSE StartEach(v, StartService(v, w, Head(list), Head(oks)), Tail(list), Tail(oks))

AutoStartList_All(cfg) == cfg.microservices

\* auto_start_services: the configured auto_start list.
AutoStartList(cfg) == cfg.auto_start

\* load_microservices: one red item per configured service.
LoadMicroservices(list) ==
  [n \in Names |-> IF n \in Range(list) THEN "red" ELSE "absent"]

\* The splash of a session whose loader has run to its end and whose success
\* signal is being delivered.
Loaded ==
  [is_closing |-> FALSE, should_stop |-> FALSE, at |-> "done", waiting |-> FALSE,
   finished |-> <<>>]

\* -------------------------------------------------------------------- Init
\* The state when the configuration has been resolved and no window exists.
Init ==
  /\ variant \in {"v3", "v4"}
  /\ config_data \in [microservices : ServiceLists, auto_start : SeqsUpTo(Names, MaxAuto)]
  /\ running_services = <<>>
  /\ is_closing = FALSE
  /\ status = [n \in Names |-> "absent"]
  /\ log = <<>>
  /\ procs = <<>>
  /\ host = "splash"
  /\ pc = Idle
  /\ main_window_instance = NoWindow
  /\ splash = Loaded

\* MainWindow.__init__: setup_ui runs auto_start_services before
\* load_microservices fills the list.
MainWindowInit ==
  /\ host = "splash"
  /\ \E oks \in [1..Len(AutoStartList(config_data)) -> BOOLEAN] :
       LET w0 == [reg |-> <<>>, procs |-> procs,
                  status |-> [n \in Names |-> "absent"], log |-> <<>>]
           w1 == StartEach(variant, w0, AutoStartList(config_data), oks)
       IN  /\ running_services' = w1.reg
           /\ procs' = w1.procs
           /\ log' = w1.log
  /\ is_closing' = FALSE
  /\ status' = LoadMicroservices(config_data.microservices)
  /\ host' = "running"
  /\ config_data' = [config_data EXCEPT !.auto_start = <<>>]
  /\ UNCHANGED <<variant, pc, main_window_instance>>

\* on_loading_finished(True, ...) of a splash that stays open: the window is
\* built from the configuration the loader delivered.
Construct ==
  /\ MainWindowInit
  /\ UNCHANGED splash

\* ------------------------------------------------------- user interaction
\* The event loop dispatches a click or a window close when the main thread
\* is idle.  Buttons act on an item of services_list.
Listed == Range(config_data.microservices)

Unregistered(list) == {n \in Range(list) : ~Has(running_services, n)}

UserCall ==
  /\ host = "running"
  /\ pc = Idle
  /\ \/ \E n \in Listed :
          /\ Has(running_services, n) \/ Len(procs) < MaxSpawns
          /\ pc' = Frame("start_service", "entry", n, NoPid, <<>>, "user")
     \/ \E n \in Listed :
          pc' = Frame("stop_service", "entry", n, NoPid, <<>>, "user")
     \/ /\ Len(procs) + Cardinality(Unregistered(config_data.microservices)) <= MaxSpawns
        /\ pc' = Frame("start_all_services", "entry", "", NoPid, <<>>, "user")
     \/ pc' = Frame("stop_all_services", "entry", "", NoPid, <<>>, "user")
     \/ pc' = Frame("closeEvent", "entry", "", NoPid, <<>>, "user")
  /\ log' = <<>>
  /\ UNCHANGED <<splash, variant, config_data, running_services, is_closing, status,
                 procs, host, main_window_instance>>

\* The window's state as one value, and its assignment.
Window == [reg |-> running_services, procs |-> procs, status |-> status, log |-> log]

SetWindow(w) ==
  /\ running_services' = w.reg
  /\ procs' = w.procs
  /\ status' = w.status
  /\ log' = w.log

\* start_selected_service -> start_service(name)
StartServiceStep ==
  /\ HostUp
  /\ pc.op = "start_service"
  /\ \E popenOk \in BOOLEAN :
       SetWindow(StartService(variant, Window, pc.name, popenOk))
  /\ pc' = Idle
  /\ UNCHANGED <<splash, variant, config_data, is_closing, host, main_window_instance>>

\* start_all_services: start_service for every item of services_list
StartAllStep ==
  /\ HostUp
  /\ pc.op = "start_all_services"
  /\ \E oks \in [1..Len(config_data.microservices) -> BOOLEAN] :
       SetWindow(StartEach(variant, Window, config_data.microservices, oks))
  /\ pc' = Idle
  /\ UNCHANGED <<splash, variant, config_data, is_closing, host, main_window_instance>>

\* ------------------------------------------------------------ stop_service
\* Where control goes when stop_service returns: the next name of the
\* caller's loop, or out of the caller.  In v3 closeEvent calls
\* stop_all_services and accepts the event, which ends the application.
AfterStop(f) ==
  IF f.todo # <<>>
  THEN Frame("stop_service", "entry", Head(f.todo).name, NoPid, Tail(f.todo), f.caller)
  ELSE IF f.caller = "closeEvent"
       THEN Frame("closeEvent", "accept", "", NoPid, <<>>, "user")
       ELSE Idle

StopNotRunning_Silent(w, n) == w

\* stop_service for a name that is not a key: log and return.
StopNotRunning(w, n) == [w EXCEPT !.log = Append(@, Msg("not_running", n))]

StopExcept_KeepEntry(v, w, n) == [w EXCEPT !.log = Append(@, Msg("stop_failed", n))]

\* The except clause of stop_service: log; v4 then drops the entry if present.
StopExcept(v, w, n) ==
  LET logged == [w EXCEPT !.log = Append(@, Msg("stop_failed", n))]
  IN  IF v = "v4" THEN Drop(logged, n) ELSE logged

GracefulSignal_Kill(v, ps, p) == Killpg(ps, p, "SIGKILL")

\* The graceful request of stop_service: v4 signals the group, v3 calls
\* process.terminate().
GracefulSignal(v, ps, p) ==
  IF v = "v4" THEN Killpg(ps, p, "SIGTERM") ELSE PopenSendSignal(ps, p, "SIGTERM")

\* Whether the graceful request can raise.  v4: os.getpgid and os.killpg raise
\* on a process that is gone or may not be signalled.  v3: process.terminate()
\* returns without a system call when the process has exited, and otherwise
\* raises what os.kill raises.
SignalRaises(v, ps, p) ==
  IF v = "v3" /\ ~ps[p].alive THEN {FALSE} ELSE BOOLEAN

StopDone_KeepEntry(w, n) ==
  [w EXCEPT !.status = UpdateServiceStatus(@, n, FALSE),
            !.log = Append(@, Msg("stopped", n))]

\* The tail of stop_service's try block: del, update_service_status, log.
StopDone(w, n) ==
  [Drop(w, n) EXCEPT !.status = UpdateServiceStatus(@, n, FALSE),
                     !.log = Append(@, Msg("stopped", n))]


\* stop_service up to its first blocking call: the registry check and the
\* graceful signal.  v4: os.killpg(os.getpgid(pid), SIGTERM), which may raise.
\* v3: process.terminate(), which polls first and signals only a live process.
StopServiceEntry ==
  /\ HostUp
  /\ pc.op = "stop_service" /\ pc.at = "entry"
  /\ IF ~Has(running_services, pc.name)
     THEN /\ SetWindow(StopNotRunning(Window, pc.name))
          /\ pc' = AfterStop(pc)
          /\ UNCHANGED host
     ELSE LET p == Get(running_services, pc.name)
          IN  \E raised \in SignalRaises(variant, procs, p) :
                IF ~raised
                THEN /\ procs' = Mark(GracefulSignal(variant, procs, p), p, pc.caller)
                     /\ pc' = [pc EXCEPT !.at = "wait", !.pid = p]
                     /\ UNCHANGED <<running_services, status, log, host>>
                ELSE /\ SetWindow(StopExcept(variant, Window, pc.name))
                     /\ pc' = AfterStop(pc)
                     /\ UNCHANGED host
  /\ UNCHANGED <<splash, variant, config_data, is_closing, main_window_instance>>

\* process.wait(timeout=5) returns: the process has exited.
StopWaitExited ==
  /\ HostUp
  /\ pc.op = "stop_service" /\ pc.at = "wait"
  /\ WaitReturns(procs, pc.pid)
  /\ SetWindow(StopDone(Window, pc.name))
  /\ pc' = AfterStop(pc)
  /\ UNCHANGED host
  /\ UNCHANGED <<splash, variant, config_data, is_closing, main_window_instance>>

\* process.wait(timeout=5) raises TimeoutExpired: the process is still alive.
\* v4 sends os.killpg(..., SIGKILL), which may raise; v3 has no inner handler,
\* so TimeoutExpired reaches the except clause.
StopWaitTimeout ==
  /\ HostUp
  /\ pc.op = "stop_service" /\ pc.at = "wait"
  /\ ~WaitReturns(procs, pc.pid)
  /\ \E raised \in BOOLEAN :
       IF variant = "v4" /\ ~raised
       THEN /\ procs' = Killpg(procs, pc.pid, "SIGKILL")
            /\ pc' = [pc EXCEPT !.at = "kill_wait"]
            /\ UNCHANGED <<running_services, status, log, host>>
       ELSE /\ SetWindow(StopExcept(variant, Window, pc.name))
            /\ pc' = AfterStop(pc)
            /\ UNCHANGED host
  /\ UNCHANGED <<splash, variant, config_data, is_closing, main_window_instance>>

StopKillWaitExited_NoWait ==
  /\ HostUp
  /\ pc.op = "stop_service" /\ pc.at = "kill_wait"
  /\ SetWindow(StopDone(Window, pc.name))
  /\ pc' = AfterStop(pc)
  /\ UNCHANGED host
  /\ UNCHANGED <<splash, variant, config_data, is_closing, main_window_instance>>

\* process.wait() after the kill returns: the process has exited.
StopKillWaitExited ==
  /\ HostUp
  /\ pc.op = "stop_service" /\ pc.at = "kill_wait"
  /\ WaitReturns(procs, pc.pid)
  /\ SetWindow(StopDone(Window, pc.name))
  /\ pc' = AfterStop(pc)
  /\ UNCHANGED host
  /\ UNCHANGED <<splash, variant, config_data, is_closing, main_window_instance>>

\* ------------------------------------------------------- stop_all_services
\* v4 returns at once when is_closing; both variants then call stop_service
\* for each key of a snapshot of running_services.
StopAllStep ==
  /\ HostUp
  /\ pc.op = "stop_all_services"
  /\ IF (variant = "v4" /\ is_closing) \/ running_services = <<>>
     THEN pc' = Idle
     ELSE pc' = Frame("stop_service", "entry", Head(running_services).name, NoPid,
                      Tail(running_services), "stop_all_services")
  /\ UNCHANGED <<splash, variant, config_data, running_services, is_closing, status, log,
                 procs, host, main_window_instance>>

\* ------------------------------------------------------------- closeEvent
\* v4: cleanup_all_processes unless is_closing, then event.accept().
\* v3: stop_all_services, then event.accept().
\* Accepting the close of the last window ends the event loop; in v4 the
\* aboutToQuit hook then calls signal_handler(SIGTERM, None), in v3 main()
\* goes to sys.exit.
CloseAccept == Frame("closeEvent", "accept", "", NoPid, <<>>, "user")

Accepted == Frame("signal_handler", "entry", "", NoPid, <<>>, "aboutToQuit")

CloseEventStep ==
  /\ HostUp
  /\ pc.op = "closeEvent"
  /\ IF pc.at = "accept"
     THEN pc' = IF variant = "v4" THEN Accepted ELSE ExitFrame
     ELSE IF variant = "v4"
          THEN pc' = IF is_closing THEN CloseAccept
                     ELSE Frame("cleanup_all_processes", "entry", "", NoPid, <<>>, "closeEvent")
          ELSE pc' = IF running_services = <<>> THEN CloseAccept
                     ELSE Frame("stop_service", "entry", Head(running_services).name, NoPid,
                                Tail(running_services), "closeEvent")
  /\ UNCHANGED <<splash, variant, config_data, running_services, is_closing, status, log,
                 procs, host, main_window_instance>>

\* The interpreter has run its exit hooks: the host process ends.
Exit ==
  /\ HostUp
  /\ pc.op = "exit"
  /\ Gone("exited")

\* -------------------------------------------------- cleanup_all_processes
\* Where control goes when cleanup_all_processes returns.  The exit hook is
\* the last thing the interpreter runs; sys.exit in signal_handler starts the
\* interpreter's exit, which runs the exit hook.
AtExit == Frame("cleanup_all_processes", "entry", "", NoPid, <<>>, "atexit")

AfterCleanup_BackToEventLoop(f) == [pc |-> Idle, host |-> host]

AfterCleanup(f) ==
  IF f.caller = "closeEvent" THEN [pc |-> CloseAccept, host |-> host]
  ELSE IF f.caller = "signal_handler" THEN [pc |-> AtExit, host |-> "atexit"]
  ELSE [pc |-> ExitFrame, host |-> host]

CleanupGuard_Off(closing) == FALSE

\* if self.is_closing: return
CleanupGuard(closing) == closing

\* The is_closing guard, then the snapshot list(self.running_services.items()).
CleanupEntry ==
  /\ HostUp
  /\ pc.op = "cleanup_all_processes" /\ pc.at = "entry"
  /\ IF CleanupGuard(is_closing)
     THEN /\ pc' = [pc EXCEPT !.at = "return_early"]
          /\ UNCHANGED is_closing
     ELSE /\ is_closing' = TRUE
          /\ pc' = [pc EXCEPT !.at = "loop", !.todo = running_services]
  /\ UNCHANGED <<splash, variant, config_data, running_services, status, log, procs, host,
                 main_window_instance>>

\* The return of the is_closing guard.
CleanupReturnEarly ==
  /\ HostUp
  /\ pc.op = "cleanup_all_processes" /\ pc.at = "return_early"
  /\ pc' = AfterCleanup(pc).pc
  /\ host' = AfterCleanup(pc).host
  /\ UNCHANGED <<splash, variant, config_data, running_services, is_closing, status, log,
                 procs, main_window_instance>>

CleanupExcept_Abort(f, lg, n) ==
  [pc  |-> [f EXCEPT !.at = "loop", !.todo = <<>>, !.pid = NoPid, !.name = ""],
   log |-> Append(lg, Msg("error_stopping", n))]

\* The except clause inside the loop: print(f"Error stopping {service_name}"),
\* and the loop goes on with the next item.
CleanupExcept(f, lg, n) ==
  [pc  |-> [f EXCEPT !.at = "loop", !.todo = Tail(@), !.pid = NoPid, !.name = ""],
   log |-> Append(lg, Msg("error_stopping", n))]

\* One turn of the loop up to its blocking call: poll(), terminate() (which
\* may raise; the except clause goes on to the next item).  After the last
\* item: running_services.clear().
CleanupLoop ==
  /\ HostUp
  /\ pc.op = "cleanup_all_processes" /\ pc.at = "loop"
  /\ IF pc.todo = <<>>
     THEN /\ running_services' = <<>>
          /\ procs' = Forget(procs, Pids(running_services))
          /\ pc' = AfterCleanup(pc).pc
          /\ host' = AfterCleanup(pc).host
          /\ UNCHANGED log
     ELSE LET p == Head(pc.todo).pid
          IN  /\ UNCHANGED <<running_services, host>>
              /\ IF WaitReturns(procs, p)
                 THEN /\ pc' = [pc EXCEPT !.todo = Tail(@)]
                      /\ UNCHANGED <<procs, log>>
                 ELSE \E raised \in BOOLEAN :
                        IF ~raised
                        THEN /\ procs' = Mark(PopenSendSignal(procs, p, "SIGTERM"), p, pc.caller)
                             /\ pc' = [pc EXCEPT !.at = "wait", !.pid = p,
                                                 !.name = Head(pc.todo).name]
                             /\ UNCHANGED log
                        ELSE /\ pc' = CleanupExcept(pc, log, Head(pc.todo).name).pc
                             /\ log' = CleanupExcept(pc, log, Head(pc.todo).name).log
                             /\ UNCHANGED procs
  /\ UNCHANGED <<splash, variant, config_data, is_closing, status, main_window_instance>>

CleanupNextItem == [pc EXCEPT !.at = "loop", !.todo = Tail(@), !.pid = NoPid, !.name = ""]

\* process.wait(timeout=3) returns.
CleanupWaitExited ==
  /\ HostUp
  /\ pc.op = "cleanup_all_processes" /\ pc.at = "wait"
  /\ WaitReturns(procs, pc.pid)
  /\ pc' = CleanupNextItem
  /\ UNCHANGED <<splash, variant, config_data, running_services, is_closing, status, log,
                 procs, host, main_window_instance>>

\* process.wait(timeout=3) raises TimeoutExpired: process.kill(), which may raise.
CleanupWaitTimeout ==
  /\ HostUp
  /\ pc.op = "cleanup_all_processes" /\ pc.at = "wait"
  /\ ~WaitReturns(procs, pc.pid)
  /\ \E raised \in BOOLEAN :
       IF ~raised
       THEN /\ procs' = PopenSendSignal(procs, pc.pid, "SIGKILL")
            /\ pc' = [pc EXCEPT !.at = "kill_wait"]
            /\ UNCHANGED log
       ELSE /\ pc' = CleanupExcept(pc, log, pc.name).pc
            /\ log' = CleanupExcept(pc, log, pc.name).log
            /\ UNCHANGED procs
  /\ UNCHANGED <<splash, variant, config_data, running_services, is_closing, status,
                 host, main_window_instance>>

\* process.wait() after the kill returns.
CleanupKillWaitExited ==
  /\ HostUp
  /\ pc.op = "cleanup_all_processes" /\ pc.at = "kill_wait"
  /\ WaitReturns(procs, pc.pid)
  /\ pc' = CleanupNextItem
  /\ UNCHANGED <<splash, variant, config_data, running_services, is_closing, status, log,
                 procs, host, main_window_instance>>

\* ---------------------------------------------------------- signal_handler
\* if main_window_instance: cleanup_all_processes(); QApplication.quit();
\* sys.exit(0).  main_window_instance is assigned only by
\* enhanced_on_loading_finished, which main() stores in an attribute of the
\* splash after the loader's signal was connected to the original method.
SignalHandlerStep ==
  /\ HostUp
  /\ pc.op = "signal_handler"
  /\ IF main_window_instance # NoWindow
     THEN /\ pc' = Frame("cleanup_all_processes", "entry", "", NoPid, <<>>, "signal_handler")
          /\ UNCHANGED host
     ELSE /\ pc' = AtExit
          /\ host' = "atexit"
  /\ UNCHANGED <<splash, variant, config_data, running_services, is_closing, status, log,
                 procs, main_window_instance>>

\* ------------------------------------------------------------- environment
\* A child process exits: on its own, in answer to a graceful signal, or
\* because it was killed.
ProcExit ==
  /\ HostUp
  /\ \E p \in 1..Len(procs) :
       /\ procs[p].alive
       /\ procs' = [procs EXCEPT ![p].alive = FALSE]
  /\ UNCHANGED <<splash, variant, config_data, running_services, is_closing, status, log,
                 host, pc, main_window_instance>>

\* An OS signal reaches the host.  v4 main() installs signal_handler for
\* SIGINT and SIGTERM and then resets SIGINT to SIG_DFL; v3 installs nothing.
\* The default action ends the host at once.  signal_handler runs on top of
\* the interrupted routine; raised inside an exit hook, its SystemExit ends
\* the hook.
Handled(v, sig) == v = "v4" /\ sig = "SIGTERM"

HostSignal ==
  /\ HostUp
  /\ \E sig \in {"SIGINT", "SIGTERM"} :
       IF ~Handled(variant, sig)
       THEN Gone("killed")
       ELSE IF host = "atexit"
            THEN Gone("aborted")
            ELSE /\ pc' = Frame("signal_handler", "entry", "", NoPid, <<>>, sig)
                 /\ log' = <<>>
                 /\ UNCHANGED <<splash, variant, config_data, running_services, is_closing,
                                status, procs, host, main_window_instance>>

\* ------------------------------------------------------------------ claims
\* The main thread took a step of the routine it is in: the frame changed,
\* and not because a signal handler was pushed on top of it.
RoutineStep ==
  /\ pc' # pc
  /\ ~(pc'.op = "signal_handler" /\ pc'.caller = "SIGTERM")
  /\ host' \notin {"killed", "aborted"}

Registered(n) == n \in Keys(running_services)

\* stop_service has returned from the call the frame f was in.
StopReturned(f) ==
  /\ f.op = "stop_service"
  /\ RoutineStep
  /\ ~(pc'.op = "stop_service" /\ pc'.name = f.name /\ pc'.todo = f.todo)

\* C1: stop_service(name) for a name with no entry in running_services is a
\* no-op: it logs 'not running', signals no process and leaves
\* running_services as it was (both variants).
C1_StopUnregisteredNoOp ==
  [][(pc.op = "stop_service" /\ pc.at = "entry" /\ ~Registered(pc.name) /\ RoutineStep)
       => /\ running_services' = running_services
          /\ procs' = procs
          /\ log' = Append(log, Msg("not_running", pc.name))]_vars

C1_Witness ==
  /\ pc = Idle
  /\ log = <<Msg("not_running", "A")>>
  /\ ~Registered("A")

\* C2: start_service(name) for a name that has an entry logs 'already
\* running', spawns nothing and leaves the entry and its process as they were.
C2_StartRegisteredRejected ==
  [][(pc.op = "start_service" /\ Registered(pc.name) /\ RoutineStep)
       => /\ running_services' = running_services
          /\ procs' = procs
          /\ log' = Append(log, Msg("already_running", pc.name))]_vars

C2_Witness ==
  /\ pc = Idle
  /\ log = <<Msg("already_running", "A")>>
  /\ Registered("A")

\* The step sent no signal to any process.
NoSignalSent ==
  /\ Len(procs') = Len(procs)
  /\ \A p \in 1..Len(procs) :
       procs'[p].term <= procs[p].term /\ procs'[p].kill <= procs[p].kill

\* C3: in v4 stop_service the graceful signal comes first; when the process
\* exits within the grace wait the call ends without a forceful signal; when
\* the wait times out exactly one forceful signal has been sent when the call
\* goes on, and no process is ever killed before it was asked to terminate.
C3_GracefulThenForceful ==
  /\ [](variant = "v4" =>
          /\ \A p \in 1..Len(procs) : procs[p].kill > 0 => procs[p].term > 0
          /\ (pc.op = "stop_service" /\ pc.at \in {"wait", "kill_wait"})
               => procs[pc.pid].term = 1
          /\ (pc.op = "stop_service" /\ pc.at = "wait") => procs[pc.pid].kill = 0
          /\ (pc.op = "stop_service" /\ pc.at = "kill_wait") => procs[pc.pid].kill = 1)
  /\ [][(variant = "v4" /\ pc.op = "stop_service" /\ RoutineStep)
          => /\ (pc.at = "wait" /\ ~procs[pc.pid].alive) => NoSignalSent
             /\ (pc.at = "wait" /\ procs[pc.pid].alive /\ pc'.at = "kill_wait")
                  => procs'[pc.pid].kill = 1
             /\ (pc.at = "kill_wait") => NoSignalSent]_vars

C3_Witness ==
  /\ variant = "v4"
  /\ pc.op = "stop_service" /\ pc.at = "kill_wait" /\ pc.name = "A"
  /\ procs[pc.pid].term = 1 /\ procs[pc.pid].kill = 1

\* C4: in v4, whichever way stop_service(name) leaves (graceful exit, forceful
\* kill, or an exception while signalling), name has no entry when it returns.
C4_StopEndsAbsent ==
  [][(variant = "v4" /\ StopReturned(pc)) => ~Has(running_services', pc.name)]_vars

C4_Witness ==
  /\ variant = "v4"
  /\ pc = Idle
  /\ log = <<Msg("stop_failed", "A")>>
  /\ ~Registered("A")
  /\ \E p \in 1..Len(procs) : procs[p].name = "A" /\ procs[p].alive

\* C5: in v4 a service still alive when the grace wait times out is stopped by
\* the forceful path: stop_service leaves its wait (it returns, unless a
\* signal ends or diverts the host first), and when it returns after the
\* forceful signal the process has exited and the name has no entry.
C5_ForcefulPathStops ==
  /\ [][(variant = "v4" /\ pc.op = "stop_service" /\ pc.at = "kill_wait" /\ RoutineStep)
          => ~procs'[pc.pid].alive /\ ~Has(running_services', pc.name)]_vars
  /\ (variant = "v4" /\ pc.op = "stop_service" /\ pc.at \in {"wait", "kill_wait"})
       ~> (pc.op # "stop_service" \/ pc.at = "entry" \/ ~HostUp)

C5_Witness ==
  /\ variant = "v4"
  /\ pc = Idle
  /\ host = "running"
  /\ log = <<Msg("stopped", "A")>>
  /\ ~Registered("A")
  /\ host = "running"
  /\ Len(procs) = 1 /\ procs[1].name = "A" /\ ~procs[1].alive

\* C6: in v3, when the process has not exited within the graceful wait,
\* stop_service kills it, returns only once it has exited, and removes the name.
C6_V3StopAlwaysTerminates ==
  [][(variant = "v3" /\ pc.at = "wait" /\ StopReturned(pc))
       => ~procs'[pc.pid].alive /\ ~Has(running_services', pc.name)]_vars

\* C7: a call of cleanup_all_processes made after an earlier call has set
\* is_closing signals no process, does not iterate running_services and
\* returns at once.
C7_SecondSweepNoOp ==
  [][(pc.op = "cleanup_all_processes" /\ is_closing
        /\ pc.at \in {"entry", "return_early"} /\ RoutineStep)
       => /\ procs' = procs
          /\ running_services' = running_services
          /\ pc.at = "entry" => pc'.at = "return_early"
          /\ pc.at = "return_early" => pc'.at \notin {"loop", "wait", "kill_wait"}]_vars

C7_Witness ==
  /\ pc.op = "cleanup_all_processes"
  /\ pc.at = "return_early"
  /\ pc.caller = "atexit"
  /\ is_closing

\* C8: in v4 a process whose stop began under a shutdown trigger (Stop All,
\* window close, signal handler, exit hook) is sent the graceful signal at
\* most once and the forceful signal at most once, also when triggers overlap.
C8_SignalledOncePerPhase ==
  variant = "v4" =>
    \A p \in 1..Len(procs) :
      procs[p].by \notin {"", "user"} => procs[p].term <= 1 /\ procs[p].kill <= 1

\* C9: in v4, once the host process has ended (after an interrupt or terminate
\* signal, or otherwise) no child process it started is alive.
C9_NoChildOutlivesHost ==
  (variant = "v4" /\ HostDown)
    => \A p \in 1..Len(procs) : ~procs[p].alive

\* C10: when the auto_start names are all configured services and every spawn
\* succeeds, the names with an entry right after MainWindow construction are
\* exactly the auto_start names; every other configured service has none.
C10_AutoStartExactly ==
  [][(/\ host = "splash" /\ host' = "running"
      /\ Range(config_data.auto_start) \subseteq Range(config_data.microservices)
      /\ \A i \in 1..Len(log') : log'[i].kind # "start_failed")
       => /\ Keys(running_services') = Range(config_data.auto_start)
          /\ \A n \in Range(config_data.microservices) \ Range(config_data.auto_start) :
               ~Has(running_services', n)]_vars

C10_Witness ==
  /\ host = "running"
  /\ pc = Idle
  /\ config_data.microservices = <<"A", "B">>
  /\ log = <<Msg("started", "A")>>
  /\ Keys(running_services) = {"A"}
  /\ status["A"] = "red"
  /\ Len(procs) = 1


\* An entry of running_services went away in a step of the running program.
Removed(e) ==
  /\ HostUp /\ host' \in {"running", "atexit"}
  /\ e \in Range(running_services)
  /\ e \notin Range(running_services')

\* C11: an entry leaves running_services only when its process has exited:
\* no step of stop_service (its except clause included) or of
\* cleanup_all_processes (its final clear() included) removes the entry of a
\* process that is still alive.
C11_RemovedOnlyWhenExited ==
  [][\A e \in Range(running_services) : Removed(e) => ~procs'[e.pid].alive]_vars


\* The lines of a log that report the failed launch of n.
FailedStarts(lg, n) == {i \in 1..Len(lg) : lg[i] = Msg("start_failed", n)}

\* C12: when Popen fails in start_service (called for one service or from
\* Start All), the name gets no entry and no process, the failure is one line
\* of the status log, and the launch is not tried again: the entries and
\* processes of the other names are what the successful launches made them.
C12_SpawnFailureLeavesRegistry ==
  [][(pc.op \in {"start_service", "start_all_services"} /\ RoutineStep)
       => \A n \in Names :
            FailedStarts(log', n) # {}
              => /\ ~Has(running_services, n)
                 /\ ~Has(running_services', n)
                 /\ \A p \in 1..Len(procs') : p > Len(procs) => procs'[p].name # n
                 /\ Cardinality(FailedStarts(log', n)) = 1
                 /\ status'[n] = status[n]]_vars

C12_Witness ==
  /\ pc = Idle
  /\ host = "running"
  /\ log = <<Msg("start_failed", "A"), Msg("started", "B")>>
  /\ ~Registered("A")
  /\ Registered("B")
  /\ \A p \in 1..Len(procs) : procs[p].name # "A"


\* stop_service returned from its except clause: the last line of the log.
StopFailed(f) ==
  /\ StopReturned(f)
  /\ log' = Append(log, Msg("stop_failed", f.name))

\* C13: when stop_service ends in its except clause and the process is still
\* alive, the entry of the service is kept: a stop error removes the entry
\* only of a process that is no longer alive.
C13_StopErrorKeepsLiveEntry ==
  [][\A e \in Range(running_services) :
       (pc.op = "stop_service" /\ pc.name = e.name /\ StopFailed(pc) /\ procs'[e.pid].alive)
         => e \in Range(running_services')]_vars

\* C14: in v4, when the graceful signal of stop_service raises for a process
\* that has already exited, the call ends as a successful stop: the entry is
\* removed and the line logged is 'Stopped', not a failure.
C14_SignalFailureOnExitedIsSuccess ==
  [][\A e \in Range(running_services) :
       (/\ variant = "v4"
        /\ pc.op = "stop_service" /\ pc.at = "entry" /\ pc.name = e.name
        /\ ~procs[e.pid].alive
        /\ StopReturned(pc))
         => /\ log' = Append(log, Msg("stopped", e.name))
            /\ ~Has(running_services', e.name)]_vars


\* The sweep made its attempt on the entry e: it found the process exited,
\* sent it the graceful signal, or printed the error of the attempt.
Attempted(e) ==
  \/ ~procs[e.pid].alive
  \/ procs[e.pid].term > 0
  \/ Msg("error_stopping", e.name) \in Range(log)

\* C15: a failure on one service does not end a sweep.  When the loop of
\* cleanup_all_processes is over, every registered service was attempted,
\* whichever attempts raised; when Stop All returns, a service still
\* registered is one whose own stop was tried and failed.
C15_SweepAttemptsAll ==
  /\ [][(pc.op = "cleanup_all_processes" /\ pc.at = "loop" /\ pc.todo = <<>> /\ RoutineStep)
          => \A e \in Range(running_services) : Attempted(e)]_vars
  /\ [][(pc.op = "stop_service" /\ pc.caller = "stop_all_services"
           /\ RoutineStep /\ pc'.op # "stop_service")
          => \A e \in Range(running_services') :
               Msg("stop_failed", e.name) \in Range(log')]_vars

C15_Witness ==
  /\ pc.op = "cleanup_all_processes" /\ pc.at = "loop" /\ pc.todo = <<>>
  /\ Keys(running_services) = {"A", "B"}
  /\ log = <<Msg("error_stopping", Head(running_services).name)>>
  /\ procs[Head(running_services).pid].alive
  /\ procs[Head(running_services).pid].term = 0
  /\ procs[running_services[2].pid].term = 1


\* C16: in v4 every service runs in a session of its own, and each signal the
\* sweep of cleanup_all_processes sends, graceful or forceful, is addressed to
\* the whole process group of the service, as the signals of stop_service are.
C16_SweepSignalsGroup ==
  variant = "v4" =>
    /\ \A p \in 1..Len(procs) : procs[p].setsid
    /\ (pc.op = "cleanup_all_processes" /\ pc.at \in {"wait", "kill_wait"})
         => procs[pc.pid].scope = "group"


\* The processes a step spawned for the name n.
Spawned(n) == {p \in 1..Len(procs') : p > Len(procs) /\ procs'[p].name = n}

StopInFlight(p) ==
  /\ variant = "v4"
  /\ p \in Pids(running_services)
  /\ procs[p].by \in {"user", "stop_all_services"}

\* C18: while stop_service is between its signal and the confirmed exit of a
\* process, no other operation works on that process: the sweep of
\* cleanup_all_processes, started by a signal or the exit hook, does not
\* signal it or wait for it.
C18_OneOperationInFlight ==
  \A p \in 1..Len(procs) :
    StopInFlight(p) => ~(pc.op = "cleanup_all_processes" /\ pc.pid = p)


\* The main thread is inside a blocking wait of a stop: process.wait in
\* stop_service or in cleanup_all_processes.
StopWaiting ==
  /\ host = "running"
  /\ pc.op \in {"stop_service", "cleanup_all_processes"}
  /\ pc.at \in {"wait", "kill_wait"}

\* C19: the waits of a stop run off the thread that serves user events: while
\* a stop is waiting the window can still take a user event (a click on
\* Start, Stop, Start All, Stop All, or a close of the window).
C19_WaitsOffUiThread ==
  StopWaiting => ENABLED UserCall


\* The auto_start names that are not configured services.
UnknownAutoStart == Range(config_data.auto_start) \ Range(config_data.microservices)

\* C20: an auto_start name that is not a configured service is not started
\* by the auto-start sweep of MainWindow construction: the name gets no
\* process and no entry (the status log reporting a configuration error
\* instead).
C20_UnknownAutoStartRejected ==
  [][(host = "splash" /\ host' = "running")
       => \A n \in UnknownAutoStart :
            /\ ~Has(running_services', n)
            /\ \A p \in 1..Len(procs') : procs'[p].name # n]_vars


\* MainWindow construction: the step that runs auto_start_services.
Constructing == host = "splash" /\ host' = "running"

\* The lines of a log that report a launch.
StartedLines(lg) == SelectSeq(lg, LAMBDA m : m.kind = "started")

\* C21: auto_start_services calls start_service once for each entry of the
\* auto_start list, in the order of the list: the call for entry i leaves line
\* i of the status log.  A failed launch does not end the loop: every later
\* entry has its line, an entry is answered 'already running' exactly when an
\* earlier entry of the same name was started, and the processes spawned are
\* those of the 'Started' lines, in that order.
C21_AutoStartOnceInOrder ==
  [][Constructing =>
       LET list == config_data.auto_start
       IN  /\ Len(log') = Len(list)
           /\ \A i \in 1..Len(list) :
                /\ log'[i].name = list[i]
                /\ log'[i].kind \in {"started", "start_failed", "already_running"}
                /\ log'[i].kind = "already_running"
                     <=> \E j \in 1..(i - 1) : log'[j] = Msg("started", list[i])
           /\ Len(procs') = Len(StartedLines(log'))
           /\ \A k \in 1..Len(procs') :
                /\ procs'[k].name = StartedLines(log')[k].name
                /\ Get(running_services', procs'[k].name) = k]_vars

C21_Witness ==
  /\ host = "running"
  /\ pc = Idle
  /\ log = <<Msg("start_failed", "B"), Msg("started", "A")>>
  /\ running_services = <<[name |-> "A", pid |-> 1]>>
  /\ status["A"] = "red"


\* C22: the four steps of the scenario start A, start A, stop A, stop A, each
\* from whatever state the one before left.  A start of an unregistered name
\* that reports 'Started' leaves the name registered with a live process; a
\* start of a registered name reports 'already running' and leaves the
\* registry as it was; a stop that reports 'Stopped' leaves the name absent
\* and its process exited; a stop of an absent name reports 'not running'.
C22_StartStartStopStop ==
  /\ [][(pc.op = "start_service" /\ RoutineStep)
          => /\ (~Registered(pc.name) /\ log' = Append(log, Msg("started", pc.name)))
                  => /\ Has(running_services', pc.name)
                     /\ procs'[Get(running_services', pc.name)].alive
                     /\ Len(running_services') = Len(running_services) + 1
             /\ Registered(pc.name)
                  => /\ log' = Append(log, Msg("already_running", pc.name))
                     /\ running_services' = running_services]_vars
  /\ [][(pc.op = "stop_service" /\ StopReturned(pc))
          => /\ log' = Append(log, Msg("stopped", pc.name))
                  => /\ Registered(pc.name)
                     /\ ~Has(running_services', pc.name)
                     /\ ~procs'[pc.pid].alive
                     /\ Len(running_services') = Len(running_services) - 1
             /\ ~Registered(pc.name)
                  => /\ log' = Append(log, Msg("not_running", pc.name))
                     /\ running_services' = running_services]_vars

\* The end of the scenario over the one service A: A was launched once, its
\* process has exited, A is absent and the last request was answered 'not
\* running'.
C22_Witness ==
  /\ host = "running"
  /\ pc = Idle
  /\ config_data.microservices = <<"A">>
  /\ Len(procs) = 1 /\ procs[1].name = "A" /\ ~procs[1].alive
  /\ running_services = <<>>
  /\ status["A"] = "red"
  /\ log = <<Msg("not_running", "A")>>


\* cleanup_all_processes returns: the step after its loop, which clears
\* running_services.
SweepReturns ==
  /\ pc.op = "cleanup_all_processes" /\ pc.at = "loop" /\ pc.todo = <<>>
  /\ RoutineStep

\* C23: when cleanup_all_processes returns, running_services is empty and no
\* process that was registered is alive, whether the services ignored the
\* graceful signal or their stop raised.
C23_SweepLeavesNoneAlive ==
  [][SweepReturns
       => /\ running_services' = <<>>
          /\ \A e \in Range(running_services) : ~procs'[e.pid].alive]_vars


\* C24: in v3, when closeEvent has stopped the services and is about to
\* accept the close, running_services is empty and no child process is alive.
C24_V3CloseStopsAll ==
  (variant = "v3" /\ HostUp /\ pc = CloseAccept)
    => /\ running_services = <<>>
       /\ \A p \in 1..Len(procs) : ~procs[p].alive


\* The entry e is stale: its process has exited.
Stale(e) == e \in Range(running_services) /\ ~procs[e.pid].alive

\* An entry leaves running_services only in stop_service for its name or in
\* the sweep.
StaleEntryStays ==
  [][\A e \in Range(running_services) :
       Removed(e) => \/ pc.op = "stop_service" /\ pc.name = e.name
                     \/ pc.op = "cleanup_all_processes"]_vars

\* start_service for a name whose entry is stale reports 'already running'.
StaleEntryBlocksStart ==
  [][\A e \in Range(running_services) :
       (Stale(e) /\ pc.op = "start_service" /\ pc.name = e.name /\ RoutineStep)
         => /\ log' = Append(log, Msg("already_running", e.name))
            /\ running_services' = running_services]_vars

\* stop_service for a name whose entry is stale ends on its success path.
StaleEntryStopSucceeds ==
  [][\A e \in Range(running_services) :
       (Stale(e) /\ pc.op = "stop_service" /\ pc.name = e.name /\ StopReturned(pc))
         => /\ log' = Append(log, Msg("stopped", e.name))
            /\ e \notin Range(running_services')]_vars

\* C25: the entry of a service whose process exited on its own stays in
\* running_services, start_service(name) reports 'already running' while it
\* is there, and it is removed only by the next stop_service(name) or by the
\* sweep; that stop_service ends on its ordinary success path ('Stopped').
C25_StaleEntry ==
  /\ StaleEntryStays
  /\ StaleEntryBlocksStart
  /\ StaleEntryStopSucceeds


\* No operation is mid-flight: the main thread is in the event loop of the
\* open application.
BetweenOperations == host = "running" /\ pc = Idle

\* C26: in v4, between operations every child process that is alive has an
\* entry in running_services.
C26_LiveChildrenTracked ==
  (variant = "v4" /\ BetweenOperations)
    => \A p \in 1..Len(procs) : procs[p].alive => p \in Pids(running_services)


C28_IndicatorMatchesRegistry ==
  (variant = "v4" /\ BetweenOperations)
    => \A n \in Listed : (status[n] = "green") <=> Registered(n)


Next ==
  \/ Construct
  \/ UserCall
  \/ StartServiceStep
  \/ StartAllStep
  \/ StopServiceEntry
  \/ StopWaitExited
  \/ StopWaitTimeout
  \/ StopKillWaitExited
  \/ StopAllStep
  \/ CloseEventStep
  \/ CleanupEntry
  \/ CleanupReturnEarly
  \/ CleanupLoop
  \/ CleanupWaitExited
  \/ CleanupWaitTimeout
  \/ CleanupKillWaitExited
  \/ SignalHandlerStep
  \/ Exit
  \/ ProcExit
  \/ HostSignal

Spec == Init /\ [][Next]_vars

\* A process that was sent SIGKILL exits: the signal cannot be caught or ignored.
ProcDies(p) ==
  /\ HostUp
  /\ p <= Len(procs)
  /\ procs[p].alive
  /\ procs[p].kill > 0
  /\ procs' = [procs EXCEPT ![p].alive = FALSE]
  /\ UNCHANGED <<splash, variant, config_data, running_services, is_closing, status, log,
                 host, pc, main_window_instance>>

\* The main thread goes on when its blocking call can return, and a killed
\* process exits.
Fairness ==
  /\ WF_vars(StopWaitExited)
  /\ WF_vars(StopWaitTimeout)
  /\ WF_vars(StopKillWaitExited)
  /\ \A p \in 1..MaxSpawns : WF_vars(ProcDies(p))

\* Sessions of claude_v4.py over the two-service list.
InitV4 ==
  /\ Init
  /\ variant = "v4"
  /\ config_data.microservices = <<"A", "B">>
  /\ config_data.auto_start \in {<<>>, <<"A">>, <<"A", "B">>}

FairSpecV4 == InitV4 /\ [][Next]_vars /\ Fairness

\* ------------------------------------------------- splash and ConfigLoader
\* claude_v4.py from start_loading to the construction of the window.  The
\* loader is taken as constructed with should_stop false (__init__ assigns it
\* from the name Falsef).  run() is followed from one read of should_stop to
\* the next: "step1", "step2", "validate", "step3", "final" are the reads at
\* lines 44, 50, 65, 70 and 75, "emit" is line 76 after the read of line 75
\* let it pass, "done" is run() returned.  finished holds the success flags of
\* the finished signals queued for the main thread.
Started ==
  [is_closing |-> FALSE, should_stop |-> FALSE, at |-> "step1", waiting |-> FALSE,
   finished |-> <<>>]

SplashInit ==
  /\ variant = "v4"
  /\ config_data \in [microservices : ServiceLists, auto_start : SeqsUpTo(Names, MaxAuto)]
  /\ running_services = <<>>
  /\ is_closing = FALSE
  /\ status = [n \in Names |-> "absent"]
  /\ log = <<>>
  /\ procs = <<>>
  /\ host = "splash"
  /\ pc = Idle
  /\ main_window_instance = NoWindow
  /\ splash = Started

WindowUnchanged ==
  UNCHANGED <<variant, config_data, running_services, is_closing, status, log,
              procs, host, pc, main_window_instance>>

NextRead(at) ==
  CASE at = "step1" -> "step2"
    [] at = "step2" -> "validate"
    [] at = "step3" -> "final"

\* if self.should_stop: return  (steps 1, 2 and 3), else progress and sleep
RunCheck ==
  /\ host = "splash"
  /\ splash.at \in {"step1", "step2", "step3"}
  /\ splash' = [splash EXCEPT !.at = IF splash.should_stop THEN "done"
                                     ELSE NextRead(splash.at)]
  /\ WindowUnchanged

\* if not self.validate_microservices(config) or self.should_stop:
\*     self.finished.emit(False, ...); return
RunValidate ==
  /\ host = "splash"
  /\ splash.at = "validate"
  /\ \E valid \in BOOLEAN :
       splash' = IF ~valid \/ splash.should_stop
                 THEN [splash EXCEPT !.finished = Append(@, FALSE), !.at = "done"]
                 ELSE [splash EXCEPT !.at = "step3"]
  /\ WindowUnchanged

\* if not self.should_stop:
RunFinal ==
  /\ host = "splash"
  /\ splash.at = "final"
  /\ splash' = [splash EXCEPT !.at = IF splash.should_stop THEN "done" ELSE "emit"]
  /\ WindowUnchanged

\*     self.finished.emit(True, "Application ready!", config)
RunEmit ==
  /\ host = "splash"
  /\ splash.at = "emit"
  /\ splash' = [splash EXCEPT !.finished = Append(@, TRUE), !.at = "done"]
  /\ WindowUnchanged

\* SplashScreen.closeEvent: is_closing = True; a running loader is stopped:
\* stop() sets should_stop and waits for the thread.
SplashCloseEvent ==
  /\ host = "splash"
  /\ ~splash.waiting
  /\ ~splash.is_closing
  /\ splash' = [splash EXCEPT !.is_closing = TRUE,
                              !.should_stop = @ \/ splash.at # "done",
                              !.waiting = splash.at # "done"]
  /\ WindowUnchanged

\* self.wait() returns when run() has returned; the close is accepted.  The
\* splash is no window whose closing quits the application: the event loop
\* goes on.
LoaderWaitReturns ==
  /\ host = "splash"
  /\ splash.waiting
  /\ splash.at = "done"
  /\ splash' = [splash EXCEPT !.waiting = FALSE]
  /\ WindowUnchanged

\* The event loop delivers a queued finished signal: on_loading_finished.
\* On success the MainWindow is built (and shown later unless is_closing).
OnLoadingFinished ==
  /\ host = "splash"
  /\ ~splash.waiting
  /\ splash.finished # <<>>
  /\ splash' = [splash EXCEPT !.finished = Tail(@)]
  /\ IF Head(splash.finished)
     THEN MainWindowInit
     ELSE WindowUnchanged

SplashNext ==
  \/ RunCheck
  \/ RunValidate
  \/ RunFinal
  \/ RunEmit
  \/ SplashCloseEvent
  \/ LoaderWaitReturns
  \/ OnLoadingFinished

SplashSpec == SplashInit /\ [][SplashNext]_vars

\* C29: in v4, once stop() has set should_stop the loader queues no finished
\* signal, on_loading_finished does not run, no MainWindow is built and no
\* service is started.
C29_StoppedLoaderIsSilent ==
  [][splash.should_stop
       => /\ splash'.finished = splash.finished
          /\ host' = "splash"
          /\ procs' = procs]_vars
====
